---- MODULE Spec2Model ----
(***************************************************************************)
(* Model of the NLQ -> SQL pipeline of nlq_sql.py (SQLApp.run and the     *)
(* classes it uses).  Python strings are sequences of one-character       *)
(* strings, so that lower(), strip(), startswith() and the two re.sub     *)
(* calls that remove code fences are computed, not assumed.               *)
(***************************************************************************)
EXTENDS Integers, Sequences, FiniteSets, TLC

(***************************************************************************)
(* Bounds of the model.                                                    *)
(***************************************************************************)
MaxRows == 6
MaxCols == 2
MaxTime == 1
NThreads == 2
MaxChoices == 2
MaxPieces == 5
MaxSimLen == 3
MaxTokens == 3

\* pandas DataFrame.head() keeps the first 5 rows (default n).
HeadRows == 5

(***************************************************************************)
(* Python string primitives.                                               *)
(***************************************************************************)
UpperCase ==
  <<"A","B","C","D","E","F","G","H","I","J","K","L","M",
    "N","O","P","Q","R","S","T","U","V","W","X","Y","Z">>

LowerCase ==
  <<"a","b","c","d","e","f","g","h","i","j","k","l","m",
    "n","o","p","q","r","s","t","u","v","w","x","y","z">>

Digits == {"0","1","2","3","4","5","6","7","8","9"}

ToLowerChar(c) ==
  IF \E i \in 1..26 : UpperCase[i] = c
    THEN LowerCase[CHOOSE i \in 1..26 : UpperCase[i] = c]
    ELSE c

\* str.lower()
lower(s) == [i \in 1..Len(s) |-> ToLowerChar(s[i])]

\* characters matched by \s and removed by str.strip()
IsSpace(c) == c \in {" ", "\n", "\t", "\r", "\f"}

\* characters matched by \w (they decide where \b matches)
IsWord(c) ==
  \/ \E i \in 1..26 : LowerCase[i] = ToLowerChar(c)
  \/ c \in Digits
  \/ c = "_"

\* str.strip()
strip(s) ==
  LET keep == {i \in 1..Len(s) : ~IsSpace(s[i])}
  IN  IF keep = {} THEN <<>>
      ELSE LET a == CHOOSE i \in keep : \A j \in keep : i <= j
               b == CHOOSE i \in keep : \A j \in keep : j <= i
           IN  SubSeq(s, a, b)

\* str.startswith(prefix)
startswith(s, prefix) ==
  /\ Len(s) >= Len(prefix)
  /\ SubSeq(s, 1, Len(prefix)) = prefix

\* s[i:] with the leading run of whitespace skipped (greedy whitespace at i)
SkipSpace(s, i) ==
  LET stop == {j \in i..Len(s) : ~IsSpace(s[j])}
  IN  IF stop = {} THEN Len(s) + 1
      ELSE CHOOSE j \in stop : \A k \in stop : j <= k

\* the grave accent, written by its code point
Backtick == "U+0060"

Fence == <<Backtick, Backtick, Backtick>>

\* first re.sub of run: at the start of the text, the opening fence, an
\* optional tag sql (matched case-sensitively) and any whitespace after it
ReSubOpenFence(s) ==
  IF ~startswith(s, Fence) THEN s
  ELSE LET afterTag == IF /\ Len(s) >= 6
                          /\ SubSeq(s, 4, 6) = <<"s","q","l">>
                         THEN 7 ELSE 4
           from == SkipSpace(s, afterTag)
       IN  SubSeq(s, from, Len(s))

\* second re.sub of run: any whitespace and the closing fence at the end of
\* the text; the end anchor also matches just before a final newline
ReSubCloseFence(s) ==
  LET n    == Len(s)
      last == IF n >= 1 /\ s[n] = "\n" THEN n - 1 ELSE n
  IN  IF last < 3 \/ SubSeq(s, last - 2, last) # Fence THEN s
      ELSE LET ws    == {i \in 1..(last - 2) :
                           \A j \in i..(last - 3) : IsSpace(s[j])}
               start == CHOOSE i \in ws : \A j \in ws : i <= j
           IN  SubSeq(s, 1, start - 1) \o SubSeq(s, last + 1, n)

\* the three statements that turn a model response into the SQL text
StripFences(raw) == ReSubCloseFence(ReSubOpenFence(strip(raw)))

(***************************************************************************)
(* Validator.                                                              *)
(***************************************************************************)
FORBIDDEN_TOKENS ==
  { <<"i","n","s","e","r","t">>, <<"u","p","d","a","t","e">>,
    <<"d","e","l","e","t","e">>, <<"d","r","o","p">>,
    <<"c","r","e","a","t","e">>, <<"a","l","t","e","r">> }

\* \b between positions i-1 and i of s (1-based, i in 1..Len(s)+1)
WordBoundary(s, i) ==
  LET before == i > 1 /\ IsWord(s[i - 1])
      after  == i <= Len(s) /\ IsWord(s[i])
  IN  before # after

\* the word w (lower case) matches at position i, ignoring case
MatchesAt(s, i, w) ==
  /\ i + Len(w) - 1 <= Len(s)
  /\ lower(SubSeq(s, i, i + Len(w) - 1)) = w

\* \bw\b matches at position i
WholeWordAt(s, i, w) ==
  /\ MatchesAt(s, i, w)
  /\ WordBoundary(s, i)
  /\ WordBoundary(s, i + Len(w))

\* sqlparse.parse() returns one statement per non-empty piece of text and
\* never rejects text; any exception is turned into False
validate_syntax(sql) == Len(sql) > 0

\* variant that counts the tokens wherever their letters occur
count_forbidden_tokens_Substring(sql) ==
  Cardinality({i \in 1..Len(sql) :
                 \E w \in FORBIDDEN_TOKENS : MatchesAt(sql, i, w)})

count_forbidden_tokens(sql) ==
  Cardinality({i \in 1..Len(sql) :
                 \E w \in FORBIDDEN_TOKENS : WholeWordAt(sql, i, w)})

\* an opening parenthesis, any whitespace, then the whole word select
SubqueryAt(s, i) ==
  /\ s[i] = "("
  /\ LET j == SkipSpace(s, i + 1)
     IN  /\ MatchesAt(s, j, <<"s","e","l","e","c","t">>)
         /\ WordBoundary(s, j + 6)

\* variant that matches join in lower case only
compute_complexity_CaseSensitive(sql) ==
  Cardinality({i \in 1..Len(sql) :
                 /\ WholeWordAt(sql, i, <<"j","o","i","n">>)
                 /\ SubSeq(sql, i, i + 3) = <<"j","o","i","n">>})
  + Cardinality({i \in 1..Len(sql) : SubqueryAt(sql, i)})

compute_complexity(sql) ==
  Cardinality({i \in 1..Len(sql) : WholeWordAt(sql, i, <<"j","o","i","n">>)})
  + Cardinality({i \in 1..Len(sql) : SubqueryAt(sql, i)})

\* difflib: a[i..i+k-1] and b[j..j+k-1] are equal
CommonRun(a, b, i, j, k) == \A d \in 0..(k - 1) : a[i + d] = b[j + d]

\* difflib: the equal blocks inside a[alo..ahi] and b[blo..bhi]
CommonBlocks(a, b, alo, ahi, blo, bhi) ==
  { m \in (alo..ahi) \X (blo..bhi) \X (1..(ahi - alo + 1)) :
      /\ m[1] + m[3] - 1 <= ahi
      /\ m[2] + m[3] - 1 <= bhi
      /\ CommonRun(a, b, m[1], m[2], m[3]) }

\* SequenceMatcher.find_longest_match without junk: a longest block, of
\* these the one that starts earliest in a, of these the one that starts
\* earliest in b
find_longest_match(a, b, alo, ahi, blo, bhi) ==
  LET blocks == CommonBlocks(a, b, alo, ahi, blo, bhi)
  IN  IF blocks = {} THEN <<alo, blo, 0>>
      ELSE CHOOSE m \in blocks :
             \A n \in blocks :
               \/ m[3] > n[3]
               \/ m[3] = n[3] /\ m[1] < n[1]
               \/ m[3] = n[3] /\ m[1] = n[1] /\ m[2] <= n[2]

\* SequenceMatcher.get_matching_blocks, summed: the longest block, then the
\* same to the left of it and to the right of it
RECURSIVE matching_size(_, _, _, _, _, _)
matching_size(a, b, alo, ahi, blo, bhi) ==
  IF alo > ahi \/ blo > bhi THEN 0
  ELSE LET m == find_longest_match(a, b, alo, ahi, blo, bhi)
           i == m[1]
           j == m[2]
           k == m[3]
       IN  IF k = 0 THEN 0
           ELSE k + matching_size(a, b, alo, i - 1, blo, j - 1)
                  + matching_size(a, b, i + k, ahi, j + k, bhi)

\* SequenceMatcher.ratio: 2.0 * matches / length as the pair of its numerator
\* and denominator, and 1.0 for two empty texts
ratio(a, b) ==
  LET length == Len(a) + Len(b)
  IN  IF length = 0 THEN <<1, 1>>
      ELSE <<2 * matching_size(a, b, 1, Len(a), 1, Len(b)), length>>

compute_similarity(a, b) == ratio(a, b)

(***************************************************************************)
(* Texts of the program and of its environment.                            *)
(***************************************************************************)
InvalidQueryMsg == <<"I","n","v","a","l","i","d"," ","q","u","e","r","y">>

DdlNotAllowedMsg ==
  <<"D","D","L"," ","o","p","e","r","a","t","i","o","n","s"," ",
    "n","o","t"," ","a","l","l","o","w","e","d",".">>

EmptyText == <<>>

\* Config.TABLE_SCHEMA, a fixed text that only travels through the run
TABLE_SCHEMA == "supply_chain_management schema"

Select1 == <<"S","E","L","E","C","T"," ","1">>
Select2 == <<"S","E","L","E","C","T"," ","2">>
DeleteT == <<"D","E","L","E","T","E"," ","F","R","O","M"," ","t">>
DropT   == <<"D","R","O","P"," ","t">>
JoinSub == <<"a"," ","j","o","i","n"," ","(","s","e","l","e","c","t"," ","1",")">>

Questions == {"List all suppliers in Germany", "Tell me a joke"}

\* answers of the intent agent
IntentResponses ==
  { <<"V","a","l","i","d">>, <<" ","v","a","l","i","d","\n">>,
    <<"I","n","v","a","l","i","d">>, <<"I","N","V","A","L","I","D"," ">>,
    <<"M","a","y","b","e">> }

\* answers of the generation agent
GenResponses ==
  { Select1,
    Fence \o <<"s","q","l","\n">> \o Select1 \o <<"\n">> \o Fence,
    Fence \o <<"S","Q","L","\n">> \o Select1 \o <<"\n">> \o Fence,
    <<" ">> \o Fence \o <<"\n">> \o JoinSub \o Fence \o <<"\n">>,
    DeleteT,
    Fence }

\* answers of the DDL agent
DdlResponses ==
  { <<"O","K">>, <<"E","R","R","O","R">>, <<"e","r","r","o","r">>,
    <<"E","R","R","O","R",":"," ","x">>, <<" ","E","R","R","O","R">>,
    <<"E","R","R","O","R","\n">>, <<"n","o"," ","e","r","r","o","r">> }

\* answers of the verification agent
RegenResponses ==
  { Select2,
    Fence \o <<"s","q","l","\n">> \o Select2 \o <<"\n">> \o Fence,
    DropT }

\* messages of the exceptions the database driver raises
DbErrors == {"Unknown column", "Table doesn't exist"}

\* the exception of OpenRouterLLM.create_chat_completion
TransportError == [type |-> "RuntimeError", msg |-> "OpenRouter API Error"]

NoError == [type |-> "none", msg |-> ""]

NoReturn == <<>>

Times == 0..MaxTime

\* pd.DataFrame(rows): no row gives a frame without columns
EmptyFrame == [rows |-> 0, cols |-> 0]

DataFrames ==
  {EmptyFrame} \cup [rows : 1..MaxRows, cols : 1..MaxCols]

\* what the database does with a statement: cur.execute raises, or
\* cur.fetchall gives the rows
Rejects(msg) == [kind |-> "rejected", msg |-> msg, rows |-> 0, cols |-> 0]

Rows(df) == [kind |-> "rows", msg |-> "", rows |-> df.rows, cols |-> df.cols]

DbAnswers ==
  {Rejects(msg) : msg \in DbErrors} \cup {Rows(df) : df \in DataFrames}

(***************************************************************************)
(* State.                                                                  *)
(***************************************************************************)
VARIABLES
  conn,             \* DatabaseHandler.conn: "live" or "none"
  pc,               \* position of the run in SQLApp.run
  q,                \* the question of the run
  sql,              \* local sql
  gen_time,         \* local gen_time
  syntax_ok,        \* local syntax_ok
  forbidden_count,  \* local forbidden_count
  complexity,       \* local complexity
  e,                \* str(e) of the exception caught at the first execution
  calls,            \* the calls the run has made to the agents and the database
  ret,              \* the tuple run returned, NoReturn before that
  raised,           \* the exception that left run, NoError if none
  db_log            \* per call of execute_sql_query, what the database does
                    \* (or would do, when there is no connection) with it

vars == <<conn, pc, q, sql, gen_time, syntax_ok, forbidden_count, complexity,
          e, calls, ret, raised, db_log>>

locals == <<sql, gen_time, syntax_ok, forbidden_count, complexity, e>>

\* threads of the web server inside DatabaseHandler.execute_sql_query, all on
\* the connection of the one SQLApp of app.py
VARIABLES
  th_pc,            \* per thread: position in execute_sql_query
  th_sql,           \* per thread: its argument sql_query
  th_out,           \* per thread: what its last call gave
  wire              \* the connection: the thread whose statement has been
                    \* issued and whose rows are not fetched yet, 0 if none

concVars == <<th_pc, th_sql, th_out, wire>>

\* one call of OpenRouterLLM.create_chat_completion
VARIABLES
  llm_pc,           \* position in create_chat_completion
  llm_messages,     \* its argument
  llm_sent,         \* requests posted during the call
  llm_resp,         \* the HTTP response
  llm_out           \* what the call returned or raised

llmVars == <<llm_pc, llm_messages, llm_sent, llm_resp, llm_out>>

\* start of the process: the environment and the construction of SQLApp
VARIABLES
  env,              \* per environment variable: its value, or None
  app,              \* the state of sql_app = SQLApp()
  app_error         \* the exception that left SQLApp(), "" if none

cfgVars == <<env, app, app_error>>

\* code-fence stripping applied to a response and to its own result
VARIABLES
  strip_pc,         \* how many times the stripping step has been applied
  strip_in,         \* the response
  strip_once,       \* the response stripped
  strip_twice       \* the stripped text stripped again

stripVars == <<strip_pc, strip_in, strip_once, strip_twice>>

\* the methods of Validator called on their own
VARIABLES
  val_pc,           \* how many calls have been made
  val_a,            \* the first text
  val_b,            \* the second text
  val_out           \* what the calls returned, in order

valVars == <<val_pc, val_a, val_b, val_out>>

\* everything SQLApp.run does not touch
aux == <<concVars, llmVars, cfgVars, stripVars, valVars>>

Threads == 1..NThreads

\* no call of execute_sql_query is in progress
NoOut == [kind |-> "none", stmt |-> EmptyText]

ConcIdle ==
  /\ th_pc = [t \in Threads |-> "idle"]
  /\ th_sql = [t \in Threads |-> EmptyText]
  /\ th_out = [t \in Threads |-> NoOut]
  /\ wire = 0

\* no call of create_chat_completion is in progress
NoResponse == [status |-> 0, text |-> "", choices |-> <<>>]

NoResult == [kind |-> "none", status |-> 0, text |-> ""]

LlmIdle ==
  /\ llm_pc = "idle"
  /\ llm_messages = <<>>
  /\ llm_sent = 0
  /\ llm_resp = NoResponse
  /\ llm_out = NoResult

\* the variables Config.__init__ reads with os.getenv
EnvNames ==
  {"OPENROUTER_API_KEY", "MYSQL_HOST", "MYSQL_PORT", "MYSQL_USER",
   "MYSQL_PASSWORD", "MYSQL_DATABASE"}

\* SQLApp() has been constructed from a complete environment
Constructed ==
  /\ env = [n \in EnvNames |-> "set"]
  /\ app = "constructed"
  /\ app_error = ""

StripIdle ==
  /\ strip_pc = 0
  /\ strip_in = EmptyText
  /\ strip_once = EmptyText
  /\ strip_twice = EmptyText

ValIdle ==
  /\ val_pc = 0
  /\ val_a = EmptyText
  /\ val_b = EmptyText
  /\ val_out = <<>>

\* no run has been started
RunFresh ==
  /\ pc = "idle"
  /\ q = ""
  /\ sql = EmptyText
  /\ gen_time = 0
  /\ syntax_ok = FALSE
  /\ forbidden_count = 0
  /\ complexity = 0
  /\ e = ""
  /\ calls = <<>>
  /\ ret = NoReturn
  /\ raised = NoError
  /\ db_log = <<>>

\* SQLApp.__init__: the connection is made once; a failed connect leaves None
Init ==
  /\ ConcIdle
  /\ LlmIdle
  /\ Constructed
  /\ StripIdle
  /\ ValIdle
  /\ conn \in {"live", "none"}
  /\ RunFresh

(***************************************************************************)
(* Helpers of the run.                                                     *)
(***************************************************************************)
Call(op, in, out) == [op |-> op, in |-> in, out |-> out]

Text(t) == [kind |-> "text", text |-> t]

Raise(msg) == [kind |-> "raise", msg |-> msg]

Frame(df) == [kind |-> "frame", rows |-> df.rows, cols |-> df.cols]

\* variants of the intent test: a substring test, and one without strip()
IsValidIntent_Substring(intent) ==
  \E i \in 1..Len(intent) : MatchesAt(intent, i, <<"v","a","l","i","d">>)

IsValidIntent_NoStrip(intent) == lower(intent) = <<"v","a","l","i","d">>

\* the test of line 413: the run goes on only for this value
IsValidIntent(intent) == strip(lower(intent)) = <<"v","a","l","i","d">>

\* variant of the DDL test without lower()
IsDdlError_CaseSensitive(ddl_check) ==
  startswith(ddl_check, <<"e","r","r","o","r">>)

\* the test of line 429
IsDdlError(ddl_check) == startswith(lower(ddl_check), <<"e","r","r","o","r">>)

\* variant of execute_sql_query that catches the error of the database and
\* gives an empty frame
execute_sql_query_Swallow(db) ==
  IF conn = "none" \/ db.kind = "rejected" THEN Frame(EmptyFrame)
  ELSE Frame(db)

\* DatabaseHandler.execute_sql_query: without a connection an empty frame and
\* no contact with the database; else the error of cur.execute leaves the
\* method, or the fetched rows are returned as a frame
execute_sql_query(db) ==
  IF conn = "none" THEN Frame(EmptyFrame)
  ELSE IF db.kind = "rejected" THEN Raise(db.msg)
  ELSE Frame(db)

\* DatabaseHandler.execute_sql_query: what a call can do
CanReturn(df) == \E db \in DbAnswers : execute_sql_query(db) = Frame(df)

CanRaise == \E db \in DbAnswers : execute_sql_query(db).kind = "raise"

Min(a, b) == IF a <= b THEN a ELSE b

\* df.head().to_string(index=False)
Preview(df) ==
  IF df.rows = 0 THEN <<"Empty DataFrame">>
  ELSE <<"rows", Min(df.rows, HeadRows), "cols", df.cols>>

\* variant of the metrics text that lacks the three validation lines
Metrics_Partial(df, exec_time) ==
  << <<"Generation Time", gen_time>>,
     <<"Execution Time", exec_time>>,
     <<"Rows Returned", df.rows>>,
     <<"Columns", df.cols>> >>

\* the metrics text of lines 451-459
Metrics(df, exec_time) ==
  << <<"Generation Time", gen_time>>,
     <<"Execution Time", exec_time>>,
     <<"Rows Returned", df.rows>>,
     <<"Columns", df.cols>>,
     <<"Syntax Valid", syntax_ok>>,
     <<"Forbidden Tokens", forbidden_count>>,
     <<"Query Complexity", complexity>> >>

\* variant in which the exception is caught and an empty answer is returned
Propagate_Swallow(op, in, ex) ==
  /\ calls' = Append(calls, Call(op, in, Raise(ex.msg)))
  /\ ret' = <<sql, Preview(EmptyFrame), EmptyText>>
  /\ pc' = "returned"
  /\ UNCHANGED <<conn, q, raised, locals>>
  /\ UNCHANGED aux

\* an exception leaves run: nothing is returned
Propagate(op, in, ex) ==
  /\ calls' = Append(calls, Call(op, in, Raise(ex.msg)))
  /\ raised' = ex
  /\ pc' = "returned"
  /\ UNCHANGED <<conn, q, ret, locals>>
  /\ UNCHANGED aux

\* lines 450-461: preview, metrics and the returned tuple
Finish(df, exec_time) ==
  /\ calls' = Append(calls, Call("execute", [sql_query |-> sql], Frame(df)))
  /\ ret' = <<sql, Preview(df), Metrics(df, exec_time)>>
  /\ pc' = "returned"
  /\ UNCHANGED <<conn, q, raised, locals>>
  /\ UNCHANGED aux

(***************************************************************************)
(* SQLApp.run, one action per call to an agent or to the database.         *)
(***************************************************************************)
\* run is entered with a question (app.chat passes a non-empty one)
StartRun(query) ==
  /\ pc \in {"idle", "returned"}
  /\ pc' = "intent"
  /\ q' = query
  /\ sql' = EmptyText
  /\ gen_time' = 0
  /\ syntax_ok' = FALSE
  /\ forbidden_count' = 0
  /\ complexity' = 0
  /\ e' = ""
  /\ calls' = <<>>
  /\ ret' = NoReturn
  /\ raised' = NoError
  /\ UNCHANGED conn
  /\ db_log' = <<>>
  /\ UNCHANGED aux

\* variant that waits for ever on an answer other than valid
IntentReturns_Spin(intent) ==
  /\ pc = "intent"
  /\ calls' = Append(calls, Call("intent", [query |-> q], Text(intent)))
  /\ IF IsValidIntent(intent)
       THEN pc' = "gen"
       ELSE pc' = "spin"
  /\ UNCHANGED <<conn, q, ret, raised, locals>>
  /\ UNCHANGED db_log
  /\ UNCHANGED aux

\* lines 412-414
IntentReturns(intent) ==
  /\ pc = "intent"
  /\ calls' = Append(calls, Call("intent", [query |-> q], Text(intent)))
  /\ IF IsValidIntent(intent)
       THEN /\ pc' = "gen"
            /\ UNCHANGED ret
       ELSE /\ pc' = "returned"
            /\ ret' = <<InvalidQueryMsg, EmptyText, EmptyText>>
  /\ UNCHANGED <<conn, q, raised, locals>>
  /\ UNCHANGED db_log
  /\ UNCHANGED aux

IntentRaises ==
  /\ pc = "intent"
  /\ Propagate("intent", [query |-> q], TransportError)
  /\ UNCHANGED db_log

\* lines 416-426
GenerateReturns(raw, t) ==
  /\ pc = "gen"
  /\ calls' = Append(calls, Call("generate", [query |-> q], Text(raw)))
  /\ gen_time' = t
  /\ sql' = StripFences(raw)
  /\ syntax_ok' = validate_syntax(sql')
  /\ forbidden_count' = count_forbidden_tokens(sql')
  /\ complexity' = compute_complexity(sql')
  /\ pc' = "ddl"
  /\ UNCHANGED <<conn, q, e, ret, raised>>
  /\ UNCHANGED db_log
  /\ UNCHANGED aux

GenerateRaises ==
  /\ pc = "gen"
  /\ Propagate("generate", [query |-> q], TransportError)
  /\ UNCHANGED db_log

\* variant of the DDL step that also stops on a forbidden token or on text
\* that failed the syntax test
DdlReturns_Gated(ddl_check) ==
  /\ pc = "ddl"
  /\ calls' = Append(calls, Call("ddl", [sql |-> sql], Text(ddl_check)))
  /\ IF IsDdlError(ddl_check) \/ forbidden_count > 0 \/ ~syntax_ok
       THEN /\ pc' = "returned"
            /\ ret' = <<DdlNotAllowedMsg, EmptyText, EmptyText>>
       ELSE /\ pc' = "exec1"
            /\ UNCHANGED ret
  /\ UNCHANGED <<conn, q, raised, locals>>
  /\ UNCHANGED db_log
  /\ UNCHANGED aux

\* lines 428-430
DdlReturns(ddl_check) ==
  /\ pc = "ddl"
  /\ calls' = Append(calls, Call("ddl", [sql |-> sql], Text(ddl_check)))
  /\ IF IsDdlError(ddl_check)
       THEN /\ pc' = "returned"
            /\ ret' = <<DdlNotAllowedMsg, EmptyText, EmptyText>>
       ELSE /\ pc' = "exec1"
            /\ UNCHANGED ret
  /\ UNCHANGED <<conn, q, raised, locals>>
  /\ UNCHANGED db_log
  /\ UNCHANGED aux

DdlRaises ==
  /\ pc = "ddl"
  /\ Propagate("ddl", [sql |-> sql], TransportError)
  /\ UNCHANGED db_log

\* lines 432-435 and 450-461: the first execution succeeds
\* variant that gives the rows of the database, connection or not
FirstExecuteReturns_Unguarded(df, exec_time) ==
  /\ pc = "exec1"
  /\ \E db \in DbAnswers :
       /\ db.kind = "rows"
       /\ Frame(db) = Frame(df)
       /\ db_log' = Append(db_log, db)
  /\ Finish(df, exec_time)

FirstExecuteReturns(df, exec_time) ==
  /\ pc = "exec1"
  /\ CanReturn(df)
  /\ \E db \in DbAnswers :
       /\ execute_sql_query(db) = Frame(df)
       /\ db_log' = Append(db_log, db)
  /\ Finish(df, exec_time)

\* variant of the handler that also gives up the connection
FirstExecuteRaises_DropsConn(msg) ==
  /\ pc = "exec1"
  /\ CanRaise
  /\ \E db \in DbAnswers :
       /\ execute_sql_query(db) = Raise(msg)
       /\ db_log' = Append(db_log, db)
  /\ calls' = Append(calls, Call("execute", [sql_query |-> sql], Raise(msg)))
  /\ e' = msg
  /\ conn' = "none"
  /\ pc' = "regen"
  /\ UNCHANGED <<q, sql, gen_time, syntax_ok, forbidden_count,
                 complexity, ret, raised>>
  /\ UNCHANGED aux

\* lines 432-436: the first execution raises and the handler is entered
FirstExecuteRaises(msg) ==
  /\ pc = "exec1"
  /\ CanRaise
  /\ \E db \in DbAnswers :
       /\ execute_sql_query(db) = Raise(msg)
       /\ db_log' = Append(db_log, db)
  /\ calls' = Append(calls, Call("execute", [sql_query |-> sql], Raise(msg)))
  /\ e' = msg
  /\ pc' = "regen"
  /\ UNCHANGED <<conn, q, sql, gen_time, syntax_ok, forbidden_count,
                 complexity, ret, raised>>
  /\ UNCHANGED aux

\* variant of the regeneration step that only trims the answer
RegenerateReturns_Raw(regen) ==
  /\ pc = "regen"
  /\ calls' = Append(calls,
       Call("verify", [sql |-> sql, schema |-> TABLE_SCHEMA, error |-> e],
            Text(regen)))
  /\ sql' = strip(regen)
  /\ pc' = "exec2"
  /\ UNCHANGED <<conn, q, gen_time, syntax_ok, forbidden_count, complexity,
                 e, ret, raised>>
  /\ UNCHANGED db_log
  /\ UNCHANGED aux

\* lines 437-444
RegenerateReturns(regen) ==
  /\ pc = "regen"
  /\ calls' = Append(calls,
       Call("verify", [sql |-> sql, schema |-> TABLE_SCHEMA, error |-> e],
            Text(regen)))
  /\ sql' = StripFences(regen)
  /\ pc' = "exec2"
  /\ UNCHANGED <<conn, q, gen_time, syntax_ok, forbidden_count, complexity,
                 e, ret, raised>>
  /\ UNCHANGED db_log
  /\ UNCHANGED aux

RegenerateRaises ==
  /\ pc = "regen"
  /\ Propagate("verify", [sql |-> sql, schema |-> TABLE_SCHEMA, error |-> e],
               TransportError)
  /\ UNCHANGED db_log

\* lines 446-448 and 450-461: the second execution succeeds
SecondExecuteReturns(df, exec_time) ==
  /\ pc = "exec2"
  /\ CanReturn(df)
  /\ \E db \in DbAnswers :
       /\ execute_sql_query(db) = Frame(df)
       /\ db_log' = Append(db_log, db)
  /\ Finish(df, exec_time)

\* variant of the second failure that asks for another regeneration
SecondExecuteRaises_Retry(msg) ==
  /\ pc = "exec2"
  /\ CanRaise
  /\ \E db \in DbAnswers :
       /\ execute_sql_query(db) = Raise(msg)
       /\ db_log' = Append(db_log, db)
  /\ calls' = Append(calls, Call("execute", [sql_query |-> sql], Raise(msg)))
  /\ e' = msg
  /\ pc' = "regen"
  /\ UNCHANGED <<conn, q, sql, gen_time, syntax_ok, forbidden_count,
                 complexity, ret, raised>>
  /\ UNCHANGED aux

\* variant of the second failure that hides the error behind an empty result
SecondExecuteRaises_Swallow(msg) ==
  /\ pc = "exec2"
  /\ CanRaise
  /\ \E db \in DbAnswers :
       /\ execute_sql_query(db) = Raise(msg)
       /\ db_log' = Append(db_log, db)
  /\ calls' = Append(calls, Call("execute", [sql_query |-> sql], Raise(msg)))
  /\ ret' = <<sql, Preview(EmptyFrame), Metrics(EmptyFrame, 0)>>
  /\ pc' = "returned"
  /\ UNCHANGED <<conn, q, raised, locals>>
  /\ UNCHANGED aux

\* line 447 inside the handler: nothing catches the second exception
SecondExecuteRaises(msg) ==
  /\ pc = "exec2"
  /\ CanRaise
  /\ \E db \in DbAnswers :
       /\ execute_sql_query(db) = Raise(msg)
       /\ db_log' = Append(db_log, db)
  /\ Propagate("execute", [sql_query |-> sql],
               [type |-> "DatabaseError", msg |-> msg])

Next ==
  \/ \E query \in Questions : StartRun(query)
  \/ \E intent \in IntentResponses : IntentReturns(intent)
  \/ IntentRaises
  \/ \E raw \in GenResponses, t \in Times : GenerateReturns(raw, t)
  \/ GenerateRaises
  \/ \E ddl_check \in DdlResponses : DdlReturns(ddl_check)
  \/ DdlRaises
  \/ \E df \in DataFrames, t \in Times : FirstExecuteReturns(df, t)
  \/ \E msg \in DbErrors : FirstExecuteRaises(msg)
  \/ \E regen \in RegenResponses : RegenerateReturns(regen)
  \/ RegenerateRaises
  \/ \E df \in DataFrames, t \in Times : SecondExecuteReturns(df, t)
  \/ \E msg \in DbErrors : SecondExecuteRaises(msg)

Spec == Init /\ [][Next]_vars

TypeOK ==
  /\ conn \in {"live", "none"}
  /\ pc \in {"idle", "intent", "gen", "ddl", "exec1", "regen", "exec2",
             "returned"}
  /\ Len(calls) <= 6

(***************************************************************************)
(* Observations on the calls of the current run and on how it ended.       *)
(***************************************************************************)
CallsOf(op) == {i \in 1..Len(calls) : calls[i].op = op}

ExecIdx == CallsOf("execute")

VerifyIdx == CallsOf("verify")

\* the calls to the agent of get_sql_to_text_crew
SummarizeIdx == CallsOf("summarize")

Answered(i) == calls[i].out.kind = "text"

Raised(i) == calls[i].out.kind = "raise"

\* the text an agent answered, as the spec normalises it: trimmed, any case
Normalised(i) == strip(lower(calls[i].out.text))

RejectedTuple == <<InvalidQueryMsg, EmptyText, EmptyText>>

BlockedTuple == <<DdlNotAllowedMsg, EmptyText, EmptyText>>

Rejected == pc = "returned" /\ ret = RejectedTuple

Blocked == pc = "returned" /\ ret = BlockedTuple

Failed == pc = "returned" /\ raised # NoError

Done ==
  /\ pc = "returned"
  /\ ret # NoReturn
  /\ ret # RejectedTuple
  /\ ret # BlockedTuple

\* both executions of the run raised
BothExecutionsRaised ==
  /\ Cardinality(ExecIdx) = 2
  /\ \A i \in ExecIdx : Raised(i)

SecondExec == CHOOSE i \in ExecIdx : \A j \in ExecIdx : j <= i

(***************************************************************************)
(* Claims.                                                                 *)
(***************************************************************************)

\* C1: every SQL string passed to the database executor was submitted to the
\* DDL gate earlier in the same run and got a verdict that is not ERROR.
C1_ExecutedSqlPassedGate ==
  \A i \in ExecIdx :
    \E j \in 1..(i - 1) :
      /\ calls[j].op = "ddl"
      /\ Answered(j)
      /\ calls[j].in.sql = calls[i].in.sql_query
      /\ ~IsDdlError(calls[j].out.text)

\* C2: a run makes at most one regeneration call and at most two executions;
\* the regeneration call comes right after the first execution raised; when
\* the second execution raises too, the run has ended with that error and the
\* failed execution is the last call of the run.
C2_SingleRegeneration ==
  /\ Cardinality(VerifyIdx) <= 1
  /\ Cardinality(ExecIdx) <= 2
  /\ \A i \in VerifyIdx :
       /\ i > 1
       /\ calls[i - 1].op = "execute"
       /\ Raised(i - 1)
       /\ ExecIdx \cap 1..i = {i - 1}
  /\ BothExecutionsRaised =>
       /\ Failed
       /\ ret = NoReturn
       /\ SecondExec = Len(calls)

C2_Witness ==
  /\ BothExecutionsRaised
  /\ Cardinality(VerifyIdx) = 1
  /\ pc = "returned"

\* C3: when the intent agent answers Invalid, run returns exactly
\* ("Invalid query", "", "") and the intent call is the only call of the run:
\* no generation, no DDL gate, no regeneration, no execution.
C3_InvalidIntentRejected ==
  \A i \in CallsOf("intent") :
    (Answered(i) /\ Normalised(i) = <<"i","n","v","a","l","i","d">>) =>
      /\ pc = "returned"
      /\ ret = <<InvalidQueryMsg, EmptyText, EmptyText>>
      /\ raised = NoError
      /\ Len(calls) = 1

C3_Witness ==
  /\ Len(calls) = 1
  /\ calls[1] = Call("intent", [query |-> "Tell me a joke"],
                     Text(<<"I","n","v","a","l","i","d">>))
  /\ ret = RejectedTuple

\* C4: when the DDL agent answers ERROR, run returns exactly
\* ("DDL operations not allowed.", "", ""), no execution has happened in the
\* run, and the returned tuple is not the one of a rejected question.
C4_DdlErrorBlocked ==
  \A i \in CallsOf("ddl") :
    (Answered(i) /\ lower(calls[i].out.text) = <<"e","r","r","o","r">>) =>
      /\ pc = "returned"
      /\ ret = <<DdlNotAllowedMsg, EmptyText, EmptyText>>
      /\ ret # RejectedTuple
      /\ raised = NoError
      /\ ExecIdx = {}
      /\ i = Len(calls)

C4_Witness ==
  /\ Blocked
  /\ calls[Len(calls)].op = "ddl"
  /\ calls[Len(calls)].out = Text(<<"E","R","R","O","R">>)
  /\ calls[Len(calls)].in.sql = DeleteT

\* C5 as stated: when both executions raise, run still returns a tuple and
\* the database error can be read in its result or metrics text.
C5_Original ==
  BothExecutionsRaised =>
    /\ ret # NoReturn
    /\ \E k \in 2..3 : \E j \in 1..Len(ret[k]) :
         ret[k][j] = <<"Error", calls[SecondExec].out.msg>>

\* C5 amended: when both executions raise, run ends by raising the second
\* execution's exception unchanged: it returns no tuple, and the message of
\* that database error is the message of the exception the caller gets.
C5_SecondFailurePropagates ==
  BothExecutionsRaised =>
    /\ pc = "returned"
    /\ ret = NoReturn
    /\ raised = [type |-> "DatabaseError", msg |-> calls[SecondExec].out.msg]

C5_Witness ==
  /\ BothExecutionsRaised
  /\ calls[SecondExec].out.msg = "Table doesn't exist"
  /\ e = "Unknown column"
  /\ raised.msg = "Table doesn't exist"

\* C6: a run that ends in Done has made exactly one summarization call, after
\* its successful execution, with the question, the final SQL and the tabular
\* result as inputs.
C6_DoneAfterOneSummarize ==
  Done =>
    /\ Cardinality(SummarizeIdx) = 1
    /\ \A i \in SummarizeIdx :
         /\ i > 1
         /\ calls[i - 1].op = "execute"
         /\ calls[i - 1].out.kind = "frame"
         /\ calls[i].in = [query |-> q, sql_query |-> ret[1],
                           db_result |-> ret[2]]

\* C7: when the successful execution returned no row, the output of the run
\* carries the insufficient-data statement that a summarization call produced.
C7_EmptyResultExplained ==
  (Done /\ \E i \in ExecIdx : calls[i].out.kind = "frame"
                                /\ calls[i].out.rows = 0) =>
    \E i \in SummarizeIdx :
      /\ Answered(i)
      /\ \E k \in 1..3 : ret[k] = calls[i].out.text

\* C8 as stated: the run is rejected exactly when the intent answer, trimmed
\* and compared without case, is Invalid; any other answer goes to Generate.
C8_Original ==
  \A i \in CallsOf("intent") :
    Answered(i) =>
      IF Normalised(i) = <<"i","n","v","a","l","i","d">>
        THEN Rejected
        ELSE ~Rejected /\ (Len(calls) = 1 => pc = "gen")

\* C8 amended: the run is rejected exactly when the intent answer, put in
\* lower case and trimmed, differs from "valid"; only the answer "valid"
\* goes to Generate.
C8_RejectedUnlessValid ==
  \A i \in CallsOf("intent") :
    Answered(i) =>
      IF Normalised(i) = <<"v","a","l","i","d">>
        THEN ~Rejected /\ (Len(calls) = 1 => pc = "gen")
        ELSE Rejected /\ Len(calls) = 1

C8_Witness ==
  /\ Rejected
  /\ calls[1].out = Text(<<"M","a","y","b","e">>)

\* C9: the run is blocked exactly when the answer of the DDL agent, trimmed
\* and compared without case, is the word ERROR; an answer that only begins
\* with or contains "error" does not block.
C9_ExactDdlMatch ==
  \A i \in CallsOf("ddl") :
    Answered(i) =>
      (Blocked <=> Normalised(i) = <<"e","r","r","o","r">>)

\* C10: the regeneration call gets the SQL whose execution has just failed,
\* the schema description and the message of that failure, and the second
\* execution runs exactly the answer of that call with its fences stripped.
C10_RegenerationInputs ==
  \A i \in VerifyIdx :
    /\ i > 1
    /\ calls[i - 1].op = "execute"
    /\ Raised(i - 1)
    /\ calls[i].in = [sql    |-> calls[i - 1].in.sql_query,
                      schema |-> TABLE_SCHEMA,
                      error  |-> calls[i - 1].out.msg]
    /\ i < Len(calls) =>
         /\ Answered(i)
         /\ calls[i + 1].op = "execute"
         /\ calls[i + 1].in.sql_query = StripFences(calls[i].out.text)
         /\ calls[i].out.text =
              Fence \o <<"s","q","l","\n">> \o Select2 \o <<"\n">> \o Fence
              => calls[i + 1].in.sql_query = Select2

C10_Witness ==
  /\ Done
  /\ Len(calls) = 6
  /\ calls[4] = Call("execute", [sql_query |-> Select1],
                     Raise("Unknown column"))
  /\ calls[5] = Call("verify",
                     [sql |-> Select1, schema |-> TABLE_SCHEMA,
                      error |-> "Unknown column"],
                     Text(Fence \o <<"s","q","l","\n">> \o Select2
                          \o <<"\n">> \o Fence))
  /\ calls[6].in.sql_query = Select2
  /\ ret[1] = Select2

\* the k-th call of execute_sql_query of the run
NthExec(k) ==
  CHOOSE i \in ExecIdx : Cardinality({j \in ExecIdx : j <= i}) = k

\* C11: without a connection every call of execute_sql_query returns an
\* empty frame and never raises, whatever the database would do with the
\* statement; with a live connection a statement the database rejects makes
\* the call raise that error and never return a frame.
C11_FailureModesApart ==
  /\ Len(db_log) = Cardinality(ExecIdx)
  /\ \A k \in 1..Len(db_log) :
       /\ conn = "none" => calls[NthExec(k)].out = Frame(EmptyFrame)
       /\ (conn = "live" /\ db_log[k].kind = "rejected") =>
            calls[NthExec(k)].out = Raise(db_log[k].msg)

C11_Witness ==
  /\ conn = "live"
  /\ Len(db_log) = 2
  /\ db_log[1] = Rejects("Unknown column")
  /\ db_log[2] = Rows(EmptyFrame)
  /\ calls[NthExec(1)].out = Raise("Unknown column")
  /\ calls[NthExec(2)].out = Frame(EmptyFrame)

MetricLabels ==
  <<"Generation Time", "Execution Time", "Rows Returned", "Columns",
    "Syntax Valid", "Forbidden Tokens", "Query Complexity">>

\* the labels of the lines of a metrics text, in order
LabelsOf(metrics) == [j \in 1..Len(metrics) |-> metrics[j][1]]

\* C12: run returns a metrics text that is not empty only when it ends in
\* Done, and then the text has all seven fields; a rejected or blocked run
\* returns an empty metrics text, a failed run returns nothing, and nothing is
\* returned before the run ends.
C12_MetricsAllOrNothing ==
  /\ pc # "returned" => ret = NoReturn
  /\ Failed => ret = NoReturn
  /\ ret # NoReturn =>
       IF ret[3] = EmptyText
         THEN ret \in {RejectedTuple, BlockedTuple}
         ELSE Done /\ LabelsOf(ret[3]) = MetricLabels
  /\ Done => LabelsOf(ret[3]) = MetricLabels

C12_Witness ==
  /\ Done
  /\ Len(ret[3]) = 7
  /\ ret[3][3] = <<"Rows Returned", 6>>
  /\ ret[3][6] = <<"Forbidden Tokens", 1>>

\* C13: the Syntax Valid, Forbidden Tokens and Query Complexity values in the
\* metrics of a Done run are those of the SQL string the run returns, the
\* regenerated one included.
C13_MetricsOfReturnedSql ==
  Done =>
    /\ ret[3][5] = <<"Syntax Valid", validate_syntax(ret[1])>>
    /\ ret[3][6] = <<"Forbidden Tokens", count_forbidden_tokens(ret[1])>>
    /\ ret[3][7] = <<"Query Complexity", compute_complexity(ret[1])>>

\* C14: the validation report never gates execution: after a DDL answer that
\* is not an ERROR verdict the run goes to the execution of the gated SQL,
\* whatever syntax_ok, forbidden_count and complexity are.
C14_ValidationNeverGates ==
  \A i \in CallsOf("ddl") :
    (Answered(i) /\ ~IsDdlError(calls[i].out.text)) =>
      IF i = Len(calls)
        THEN pc = "exec1" /\ ret = NoReturn
        ELSE /\ calls[i + 1].op = "execute"
             /\ calls[i + 1].in.sql_query = calls[i].in.sql

C14_Witness ==
  /\ pc = "returned"
  /\ forbidden_count = 1
  /\ ExecIdx # {}
  /\ calls[NthExec(1)].in.sql_query = DeleteT
  /\ \E i \in CallsOf("generate") : calls[i].out = Text(DeleteT)

(***************************************************************************)
(* Threads in DatabaseHandler.execute_sql_query.  app.py builds one SQLApp *)
(* (line 15) and the chat callback (lines 209-216) calls its run from the  *)
(* threads of the web server; execute_sql_query takes no lock.             *)
(***************************************************************************)
notConc == <<vars, llmVars, cfgVars, stripVars, valVars>>

ConcStatements == {Select1, Select2}

RowsOf(stmt) == [kind |-> "rows", stmt |-> stmt]

DriverError == [kind |-> "raise", stmt |-> EmptyText]

\* lines 293-295: the call starts; without a connection it returns at once
ThEnter(t, stmt) ==
  /\ th_pc[t] = "idle"
  /\ th_sql' = [th_sql EXCEPT ![t] = stmt]
  /\ IF conn = "none"
       THEN /\ th_out' = [th_out EXCEPT ![t] = RowsOf(EmptyText)]
            /\ UNCHANGED th_pc
       ELSE /\ th_out' = [th_out EXCEPT ![t] = NoOut]
            /\ th_pc' = [th_pc EXCEPT ![t] = "cursor"]
  /\ UNCHANGED <<wire, notConc>>

\* line 296
ThCursor(t) ==
  /\ th_pc[t] = "cursor"
  /\ th_pc' = [th_pc EXCEPT ![t] = "execute"]
  /\ UNCHANGED <<th_sql, th_out, wire, notConc>>

\* line 297: the statement is issued on the shared connection.  When the rows
\* of another thread are still to be fetched this is a race on the
\* connection: the driver raises, or the statement goes out all the same.
ThExecute(t) ==
  /\ th_pc[t] = "execute"
  /\ \/ /\ wire' = t
        /\ th_pc' = [th_pc EXCEPT ![t] = "fetch"]
        /\ UNCHANGED th_out
     \/ /\ wire # 0
        /\ th_out' = [th_out EXCEPT ![t] = DriverError]
        /\ th_pc' = [th_pc EXCEPT ![t] = "idle"]
        /\ UNCHANGED wire
  /\ UNCHANGED <<th_sql, notConc>>

\* line 298: the rows on the connection are read.  When they are not the rows
\* of this thread's statement the driver raises or hands over what is there.
ThFetch(t) ==
  /\ th_pc[t] = "fetch"
  /\ \/ /\ wire # 0
        /\ th_out' = [th_out EXCEPT ![t] = RowsOf(th_sql[wire])]
        /\ th_pc' = [th_pc EXCEPT ![t] = "close"]
        /\ wire' = 0
     \/ /\ wire # t
        /\ th_out' = [th_out EXCEPT ![t] = DriverError]
        /\ th_pc' = [th_pc EXCEPT ![t] = "idle"]
        /\ UNCHANGED wire
  /\ UNCHANGED <<th_sql, notConc>>

\* lines 299-300
ThClose(t) ==
  /\ th_pc[t] = "close"
  /\ th_pc' = [th_pc EXCEPT ![t] = "idle"]
  /\ UNCHANGED <<th_sql, th_out, wire, notConc>>

ConcNext ==
  \/ \E t \in Threads, stmt \in ConcStatements : ThEnter(t, stmt)
  \/ \E t \in Threads : ThCursor(t)
  \/ \E t \in Threads : ThExecute(t)
  \/ \E t \in Threads : ThFetch(t)
  \/ \E t \in Threads : ThClose(t)

ConcSpec == Init /\ [][ConcNext]_<<concVars, notConc>>

\* C15: while one run is between issuing its statement and the end of its
\* fetch, no other run issues a statement or fetches on the connection, and
\* a run gets the rows of its own statement.
C15_NoInterleaving ==
  \A t \in Threads :
    /\ th_pc[t] = "fetch" =>
         \A u \in Threads \ {t} : th_pc[u] # "fetch"
    /\ (conn = "live" /\ th_out[t].kind = "rows") =>
         th_out[t].stmt = th_sql[t]

(***************************************************************************)
(* Claims on the run, continued.                                           *)
(***************************************************************************)
ModelOps == {"intent", "generate", "ddl", "verify"}

\* C16: when a call to an agent fails with the transport error, that call is
\* the last call of the run (no execution follows), the run has ended, it
\* returned no tuple and the caller gets the transport error.
C16_TransportErrorEndsRun ==
  \A i \in 1..Len(calls) :
    (calls[i].op \in ModelOps /\ Raised(i)) =>
      /\ i = Len(calls)
      /\ pc = "returned"
      /\ ret = NoReturn
      /\ raised = TransportError

C16_Witness ==
  /\ Len(calls) = 5
  /\ calls[4].op = "execute"
  /\ calls[5].op = "verify"
  /\ Raised(5)
  /\ Failed

(***************************************************************************)
(* OpenRouterLLM.create_chat_completion.                                   *)
(***************************************************************************)
notLlm == <<vars, concVars, cfgVars, stripVars, valVars>>

LlmMessages ==
  { <<[role |-> "user", content |-> "Tell me a joke"]>>,
    <<[role |-> "system", content |-> "Schema"],
      [role |-> "user", content |-> "List all suppliers in Germany"]>>,
    <<[role |-> "system", content |-> "If SQL contains DDL tokens"],
      [role |-> "user", content |-> "SQL to validate: SELECT 1"]>> }

Contents == {"Valid", "SELECT 1", "OK"}

\* the value of data["choices"], one message content per choice
ChoiceLists == UNION {[1..n -> Contents] : n \in 1..MaxChoices}

ErrorStatuses == {401, 429, 500}

ErrorBodies == {"rate limited", "no auth credentials"}

\* what the endpoint can answer to one request
LlmResponses ==
  {[status |-> 200, text |-> "", choices |-> c] : c \in ChoiceLists}
  \cup {[status |-> st, text |-> b, choices |-> <<>>] :
          st \in ErrorStatuses, b \in ErrorBodies}

\* lines 43-48: the call starts and builds payload and headers
LlmCall(messages) ==
  /\ llm_pc \in {"idle", "returned", "raised"}
  /\ llm_pc' = "post"
  /\ llm_messages' = messages
  /\ llm_sent' = 0
  /\ llm_resp' = NoResponse
  /\ llm_out' = NoResult
  /\ UNCHANGED notLlm

\* line 49: requests.post sends the request and waits for the response
LlmPost(resp) ==
  /\ llm_pc = "post"
  /\ llm_sent' = llm_sent + 1
  /\ llm_resp' = resp
  /\ llm_pc' = "check"
  /\ UNCHANGED <<llm_messages, llm_out, notLlm>>

\* variant that posts again after a failure
LlmCheck_Retry ==
  /\ llm_pc = "check"
  /\ IF llm_resp.status # 200
       THEN /\ llm_pc' = "post"
            /\ UNCHANGED llm_out
       ELSE /\ llm_out' = [kind |-> "text", status |-> 200,
                           text |-> llm_resp.choices[1]]
            /\ llm_pc' = "returned"
  /\ UNCHANGED <<llm_messages, llm_sent, llm_resp, notLlm>>

\* lines 50-53: the status test, the RuntimeError with status and body, and
\* the content of the first choice
LlmCheck ==
  /\ llm_pc = "check"
  /\ IF llm_resp.status # 200
       THEN /\ llm_out' = [kind |-> "raise", status |-> llm_resp.status,
                           text |-> llm_resp.text]
            /\ llm_pc' = "raised"
       ELSE /\ llm_out' = [kind |-> "text", status |-> 200,
                           text |-> llm_resp.choices[1]]
            /\ llm_pc' = "returned"
  /\ UNCHANGED <<llm_messages, llm_sent, llm_resp, notLlm>>

LlmNext ==
  \/ \E messages \in LlmMessages : LlmCall(messages)
  \/ \E resp \in LlmResponses : LlmPost(resp)
  \/ LlmCheck

LlmSpec == Init /\ [][LlmNext]_<<llmVars, notLlm>>

\* C17: a call of create_chat_completion posts exactly one request and never
\* a second one; with a status other than 200 it raises an error that
\* carries the status and the body, with status 200 it returns the content
\* of the first choice.
C17_OneRequestNoRetry ==
  /\ llm_sent <= 1
  /\ llm_pc \in {"check", "returned", "raised"} => llm_sent = 1
  /\ llm_pc \in {"returned", "raised"} =>
       IF llm_resp.status = 200
         THEN /\ llm_pc = "returned"
              /\ llm_out.kind = "text"
              /\ llm_out.text = llm_resp.choices[1]
         ELSE /\ llm_pc = "raised"
              /\ llm_out = [kind |-> "raise", status |-> llm_resp.status,
                            text |-> llm_resp.text]

C17_Witness ==
  /\ llm_pc = "raised"
  /\ llm_sent = 1
  /\ llm_out = [kind |-> "raise", status |-> 429, text |-> "rate limited"]

(***************************************************************************)
(* Start of the process: Config.__init__ and SQLApp.__init__.              *)
(***************************************************************************)
notCfgConn == <<pc, q, sql, gen_time, syntax_ok, forbidden_count, complexity,
                e, calls, ret, raised, db_log, concVars, llmVars, stripVars,
                valVars>>

\* the variables whose value goes to mysql.connector.connect
DbEnvNames ==
  {"MYSQL_HOST", "MYSQL_PORT", "MYSQL_USER", "MYSQL_PASSWORD",
   "MYSQL_DATABASE"}

Missing == {n \in EnvNames : env[n] = "None"}

\* the process starts with any subset of the variables set; os.getenv gives
\* None for the others
CfgInit ==
  /\ env \in [EnvNames -> {"set", "None"}]
  /\ app = "starting"
  /\ app_error = ""
  /\ conn = "none"
  /\ RunFresh
  /\ ConcIdle
  /\ LlmIdle
  /\ StripIdle
  /\ ValIdle

\* lines 59-71: only int(os.getenv("MYSQL_PORT")) fails on None
CfgConfig ==
  /\ app = "starting"
  /\ IF env["MYSQL_PORT"] = "None"
       THEN app' = "failed" /\ app_error' = "TypeError"
       ELSE app' = "config" /\ UNCHANGED app_error
  /\ UNCHANGED <<env, conn, notCfgConn>>

\* lines 279-292 and 400-407: connect succeeds, or its mysql.connector.Error
\* is logged and conn is None; the key and the crews are stored unchecked
CfgConnect(c) ==
  /\ app = "config"
  /\ conn' = c
  /\ app' = "constructed"
  /\ UNCHANGED <<env, app_error, notCfgConn>>

\* lines 281-288 with None among the arguments: the driver may also raise
\* an exception that is not a mysql.connector.Error, which leaves SQLApp()
CfgConnectCrash ==
  /\ app = "config"
  /\ Missing \cap DbEnvNames # {}
  /\ app' = "failed"
  /\ app_error' = "Exception"
  /\ UNCHANGED <<env, conn, notCfgConn>>

\* app.py lines 15 and 213: runs are served by the constructed sql_app
CfgRun(query) ==
  /\ app = "constructed"
  /\ StartRun(query)

CfgNext ==
  \/ CfgConfig
  \/ \E c \in {"live", "none"} : CfgConnect(c)
  \/ CfgConnectCrash
  \/ \E query \in Questions : CfgRun(query)

CfgSpec == CfgInit /\ [][CfgNext]_<<vars, aux>>

\* C18: when a required value (API key, database host, port, user, password
\* or database name) is missing, the construction of the application fails:
\* the application is never constructed and no run starts.
C18_FailFast ==
  Missing # {} =>
    /\ app # "constructed"
    /\ pc = "idle"

(***************************************************************************)
(* Independence of the runs.                                               *)
(***************************************************************************)
\* what a finished run gives its caller, read off the question, the answers
\* of the agents and the answers of the database of that run alone (the two
\* measured times apart)
OutcomeFromCalls ==
  LET last == calls[Len(calls)]
  IN  IF last.out.kind = "raise"
        THEN ret = NoReturn /\ raised.msg = last.out.msg
        ELSE /\ raised = NoError
             /\ IF last.op = "intent" THEN ret = RejectedTuple
                ELSE IF last.op = "ddl" THEN ret = BlockedTuple
                ELSE /\ last.op = "execute"
                     /\ ret[1] = last.in.sql_query
                     /\ ret[2] = Preview(last.out)
                     /\ ret[3][3] = <<"Rows Returned", last.out.rows>>
                     /\ ret[3][4] = <<"Columns", last.out.cols>>
                     /\ LET g == StripFences(calls[2].out.text)
                        IN  /\ ret[3][5] = <<"Syntax Valid", validate_syntax(g)>>
                            /\ ret[3][6] = <<"Forbidden Tokens",
                                             count_forbidden_tokens(g)>>
                            /\ ret[3][7] = <<"Query Complexity",
                                             compute_complexity(g)>>

\* C19: no step of a run changes the connection handle or the configuration
\* the application was built from; and when a run has finished, what it
\* returned or raised is determined by its own question and by the answers it
\* got from the agents and the database, and the next run starts with nothing
\* of it.
C19_NoCrossCallState ==
  [][ /\ conn' = conn
      /\ cfgVars' = cfgVars
      /\ pc = "returned" =>
           /\ OutcomeFromCalls
           /\ calls' = <<>>
           /\ db_log' = <<>>
           /\ ret' = NoReturn
           /\ raised' = NoError ]_vars

C19_Witness ==
  /\ conn = "live"
  /\ Done
  /\ Len(calls) = 6
  /\ q = "Tell me a joke"
  /\ ret[1] = DropT

(***************************************************************************)
(* Code-fence stripping as a function of the response.                     *)
(***************************************************************************)
notStrip == <<vars, concVars, llmVars, cfgVars, valVars>>

\* responses are made of these pieces
StripPieces ==
  { Fence, <<"s","q","l">>, <<"\n">>, <<" ">>, <<"x">> }

RECURSIVE Concats(_)
Concats(n) ==
  IF n = 0 THEN {EmptyText}
  ELSE LET shorter == Concats(n - 1)
       IN  shorter \cup {p \o r : p \in StripPieces, r \in shorter}

StripInputs == Concats(MaxPieces)

StripInit ==
  /\ strip_in \in StripInputs
  /\ strip_pc = 0
  /\ strip_once = EmptyText
  /\ strip_twice = EmptyText
  /\ conn = "live"
  /\ RunFresh
  /\ ConcIdle
  /\ LlmIdle
  /\ Constructed
  /\ ValIdle

\* lines 420-422 on the response
StripFirst ==
  /\ strip_pc = 0
  /\ strip_once' = StripFences(strip_in)
  /\ strip_pc' = 1
  /\ UNCHANGED <<strip_in, strip_twice, notStrip>>

\* lines 420-422 on the text they gave
StripSecond ==
  /\ strip_pc = 1
  /\ strip_twice' = StripFences(strip_once)
  /\ strip_pc' = 2
  /\ UNCHANGED <<strip_in, strip_once, notStrip>>

StripNext == StripFirst \/ StripSecond

StripSpec == StripInit /\ [][StripNext]_<<stripVars, notStrip>>

\* C20: stripping is idempotent: applied to an already stripped response it
\* returns it unchanged.
C20_StripIdempotent ==
  strip_pc = 2 => strip_twice = strip_once

(***************************************************************************)
(* Code-fence stripping of a fenced response.                              *)
(***************************************************************************)
\* language tags a model writes after the opening fence
FenceTags ==
  { EmptyText, <<"s","q","l">>, <<"S","Q","L">>, <<"S","q","l">> }

FenceBodies == { Select1, JoinSub, <<"x">> }

\* the opening fence, the tag, white space, the body, white space or none,
\* the closing fence, with white space around the whole
FencedResponse(lead, tag, sep, body, before, trail) ==
  lead \o Fence \o tag \o sep \o body \o before \o Fence \o trail

FencedResponses ==
  { FencedResponse(lead, tag, sep, body, before, trail) :
      lead \in {EmptyText, <<"\n">>},
      tag \in FenceTags,
      sep \in {<<"\n">>, <<" ">>},
      body \in FenceBodies,
      before \in {EmptyText, <<"\n">>},
      trail \in {EmptyText, <<"\n">>, <<" ">>} }

FencedInit ==
  /\ strip_in \in FencedResponses
  /\ strip_pc = 0
  /\ strip_once = EmptyText
  /\ strip_twice = EmptyText
  /\ conn = "live"
  /\ RunFresh
  /\ ConcIdle
  /\ LlmIdle
  /\ Constructed
  /\ ValIdle

FencedSpec == FencedInit /\ [][StripNext]_<<stripVars, notStrip>>

\* C21: for a response made of an opening fence, an optional language tag in
\* any letter case, a body and a closing fence, the stripped text is the body
\* alone.
C21_TagStripped ==
  \A lead \in {EmptyText, <<"\n">>}, tag \in FenceTags,
     sep \in {<<"\n">>, <<" ">>}, body \in FenceBodies,
     before \in {EmptyText, <<"\n">>},
     trail \in {EmptyText, <<"\n">>, <<" ">>} :
    (/\ strip_pc >= 1
     /\ strip_in = FencedResponse(lead, tag, sep, body, before, trail))
      => strip_once = body

(***************************************************************************)
(* Validator.compute_similarity on two texts, in both orders.              *)
(***************************************************************************)
notVal == <<vars, concVars, llmVars, cfgVars, stripVars>>

SimAlphabet == {"a", "b", "c"}

RECURSIVE SimTexts(_)
SimTexts(n) ==
  IF n = 0 THEN {EmptyText}
  ELSE LET shorter == SimTexts(n - 1)
       IN  shorter \cup {<<c>> \o t : c \in SimAlphabet, t \in shorter}

SimInit ==
  /\ val_a \in SimTexts(MaxSimLen)
  /\ val_b \in SimTexts(MaxSimLen)
  /\ val_pc = 0
  /\ val_out = <<>>
  /\ conn = "live"
  /\ RunFresh
  /\ ConcIdle
  /\ LlmIdle
  /\ Constructed
  /\ StripIdle

SimForward ==
  /\ val_pc = 0
  /\ val_out' = Append(val_out, compute_similarity(val_a, val_b))
  /\ val_pc' = 1
  /\ UNCHANGED <<val_a, val_b, notVal>>

SimBackward ==
  /\ val_pc = 1
  /\ val_out' = Append(val_out, compute_similarity(val_b, val_a))
  /\ val_pc' = 2
  /\ UNCHANGED <<val_a, val_b, notVal>>

SimNext == SimForward \/ SimBackward

SimSpec == SimInit /\ [][SimNext]_<<valVars, notVal>>

\* C22: compute_similarity is symmetric: compute_similarity(a, b) equals
\* compute_similarity(b, a) for all texts a and b.
C22_Symmetric ==
  val_pc = 2 => val_out[1] = val_out[2]

(***************************************************************************)
(* Validator.count_forbidden_tokens and Validator.compute_complexity on a  *)
(* text, and compute_complexity on the text with a JOIN clause added.      *)
(***************************************************************************)
SqlTokens ==
  { <<"d","r","o","p">>, <<"A","L","T","E","R">>, <<"J","o","i","n">>,
    <<"(">>, <<"s","e","l","e","c","t">>, <<" ">>, <<"x">> }

RECURSIVE SqlTexts(_)
SqlTexts(n) ==
  IF n = 0 THEN {EmptyText}
  ELSE LET shorter == SqlTexts(n - 1)
       IN  shorter \cup {p \o t : p \in SqlTokens, t \in shorter}

\* a JOIN clause: white space, the keyword in some letter case, a table
JoinClauses ==
  { <<" ","J","O","I","N"," ","t">>, <<"\n","j","o","i","n"," ","t">>,
    <<"\t","J","o","i","n"," ","t"," ","o","n"," ","x">> }

ValInit ==
  /\ val_a \in SqlTexts(MaxTokens)
  /\ val_b \in JoinClauses
  /\ val_pc = 0
  /\ val_out = <<>>
  /\ conn = "live"
  /\ RunFresh
  /\ ConcIdle
  /\ LlmIdle
  /\ Constructed
  /\ StripIdle

ValForbidden ==
  /\ val_pc = 0
  /\ val_out' = Append(val_out, count_forbidden_tokens(val_a))
  /\ val_pc' = 1
  /\ UNCHANGED <<val_a, val_b, notVal>>

ValComplexity ==
  /\ val_pc = 1
  /\ val_out' = Append(val_out, compute_complexity(val_a))
  /\ val_pc' = 2
  /\ UNCHANGED <<val_a, val_b, notVal>>

ValComplexityWithJoin ==
  /\ val_pc = 2
  /\ val_out' = Append(val_out, compute_complexity(val_a \o val_b))
  /\ val_pc' = 3
  /\ UNCHANGED <<val_a, val_b, notVal>>

ValNext == ValForbidden \/ ValComplexity \/ ValComplexityWithJoin

ValSpec == ValInit /\ [][ValNext]_<<valVars, notVal>>

\* the words of a text: its maximal runs of word characters, as the pairs of
\* their first and last position
WordSpans(s) ==
  LET word   == [k \in 1..Len(s) |-> IsWord(s[k])]
      starts == {i \in 1..Len(s) : word[i] /\ (i = 1 \/ ~word[i - 1])}
      ends   == {j \in 1..Len(s) : word[j] /\ (j = Len(s) \/ ~word[j + 1])}
  IN  { sp \in starts \X ends :
          /\ sp[1] <= sp[2]
          /\ \A j \in ends : j < sp[1] \/ sp[2] <= j }

\* the words of a text that are w in some letter case
WordsEqual(s, w) ==
  { sp \in WordSpans(s) : lower(SubSeq(s, sp[1], sp[2])) = w }

\* the opening parentheses of a text that are followed, after any white
\* space, by the word select
SubqueryOpenings(s) ==
  { i \in 1..Len(s) :
      /\ s[i] = "("
      /\ \E sp \in WordsEqual(s, <<"s","e","l","e","c","t">>) :
           sp[1] = SkipSpace(s, i + 1) }

\* C23: for a text with no word join and no subquery opening
\* compute_complexity returns 0, and with one JOIN clause added to a text
\* compute_complexity returns 1 more than for the text.
C23_ComplexityCounts ==
  /\ (/\ val_pc >= 2
      /\ WordsEqual(val_a, <<"j","o","i","n">>) = {}
      /\ SubqueryOpenings(val_a) = {}) => val_out[2] = 0
  /\ val_pc = 3 => val_out[3] = val_out[2] + 1

C23_Witness ==
  /\ val_pc = 3
  /\ WordsEqual(val_a, <<"j","o","i","n">>) # {}
  /\ SubqueryOpenings(val_a) # {}
  /\ val_b[2] = "J"

\* the words of a text that are a forbidden token in some letter case
ForbiddenWords(s) ==
  { sp \in WordSpans(s) : lower(SubSeq(s, sp[1], sp[2])) \in FORBIDDEN_TOKENS }

\* C24: count_forbidden_tokens returns the number of the words of the text
\* that are insert, update, delete, drop, create or alter in some letter
\* case, so at least 1 when there is such a word.
C24_ForbiddenCounted ==
  val_pc >= 1 =>
    /\ val_out[1] = Cardinality(ForbiddenWords(val_a))
    /\ ForbiddenWords(val_a) # {} => val_out[1] >= 1

C24_Witness ==
  /\ val_pc >= 1
  /\ Cardinality(ForbiddenWords(val_a)) = 2
  /\ \E sp \in ForbiddenWords(val_a) : val_a[sp[1]] = "A"

(***************************************************************************)
(* Termination of a run.                                                   *)
(***************************************************************************)
\* a step of a run that has been started: a call to an agent or to the
\* database returns or raises and run goes on to its next call or leaves
RunStep ==
  \/ \E intent \in IntentResponses : IntentReturns(intent)
  \/ IntentRaises
  \/ \E raw \in GenResponses, t \in Times : GenerateReturns(raw, t)
  \/ GenerateRaises
  \/ \E ddl_check \in DdlResponses : DdlReturns(ddl_check)
  \/ DdlRaises
  \/ \E df \in DataFrames, t \in Times : FirstExecuteReturns(df, t)
  \/ \E msg \in DbErrors : FirstExecuteRaises(msg)
  \/ \E regen \in RegenResponses : RegenerateReturns(regen)
  \/ RegenerateRaises
  \/ \E df \in DataFrames, t \in Times : SecondExecuteReturns(df, t)
  \/ \E msg \in DbErrors : SecondExecuteRaises(msg)

\* every call returns or raises, and the interpreter goes on; nothing makes
\* a user ask a question
LiveSpec == Init /\ [][Next]_vars /\ WF_vars(RunStep)

OutcomeCount ==
  (IF Rejected THEN 1 ELSE 0) + (IF Blocked THEN 1 ELSE 0)
  + (IF Failed THEN 1 ELSE 0) + (IF Done THEN 1 ELSE 0)

\* C25: every run that has been started eventually leaves run; when it has,
\* it has exactly one of the outcomes Rejected, Blocked, Failed and Done, and
\* no step of that run is possible any more.
C25_RunTerminates ==
  /\ (pc \notin {"idle", "returned"}) ~> (pc = "returned")
  /\ [](pc = "returned" => (OutcomeCount = 1 /\ ~ENABLED RunStep))

C25_Witness ==
  /\ Done
  /\ conn = "live"
  /\ Cardinality(ExecIdx) = 2
  /\ Cardinality(VerifyIdx) = 1
  /\ ret[1] = Select2

(***************************************************************************)
(* Runs of an application whose connection failed at startup.              *)
(***************************************************************************)
\* the run has passed the intent gate and the DDL gate
PassedGates ==
  /\ Len(calls) >= 3
  /\ calls[3].op = "ddl"
  /\ Answered(3)
  /\ ~IsDdlError(calls[3].out.text)

\* the run ended in Done on an empty result and returned the generated SQL
DoneOnEmptyFrame ==
  /\ Done
  /\ Cardinality(ExecIdx) = 1
  /\ ret[1] = StripFences(calls[2].out.text)
  /\ ret[2] = Preview(EmptyFrame)
  /\ ret[3][3] = <<"Rows Returned", 0>>
  /\ ret[3][4] = <<"Columns", 0>>

\* C26: without a connection no run calls the regeneration agent and no
\* execution raises; every run that passes the intent gate and the DDL gate
\* executes once and ends in Done with 0 rows and 0 columns, returning the
\* SQL that was generated.
C26_DegradedMode ==
  /\ [](conn = "none" =>
          /\ VerifyIdx = {}
          /\ Cardinality(ExecIdx) <= 1
          /\ \A i \in ExecIdx : ~Raised(i)
          /\ Failed => calls[Len(calls)].op # "execute"
          /\ (PassedGates /\ pc = "returned") => DoneOnEmptyFrame)
  /\ (conn = "none" /\ PassedGates) ~> DoneOnEmptyFrame

C26_Witness ==
  /\ conn = "none"
  /\ PassedGates
  /\ DoneOnEmptyFrame
  /\ db_log = <<Rejects("Unknown column")>>
  /\ ret[1] = Select1

====
